---- MODULE Spec2Model ----
(***************************************************************************)
(* Model of llama_index.core.memory.types: BaseMemory and                  *)
(* BaseChatStoreMemory, two memory objects sharing one chat store, each    *)
(* driven by its own caller.  The chat store (BaseChatStore /              *)
(* SimpleChatStore) lives outside memory/types.py; its operations are      *)
(* modelled from the collaborator contract: a keyed map to ordered         *)
(* message lists whose single-key operations are atomic.                   *)
(***************************************************************************)
EXTENDS Integers, Sequences, FiniteSets, TLC

(* ---------------- bounds ---------------- *)
MaxLen == 3          \* longest history kept under one key
MaxEntries == 3      \* most entries kept in the long-term memory
MaxTime == 3         \* timestamps are 1..MaxTime
MaxBatch == 2        \* longest list passed to put_messages / set
NumContents == 2     \* distinct message contents per role

(* ---------------- constants of the program ---------------- *)
DEFAULT_CHAT_STORE_KEY == "chat_history"

(* ---------------- workload ---------------- *)
Keys == {DEFAULT_CHAT_STORE_KEY, "other"}
Callers == {"c1", "c2"}
\* each caller writes messages of its own role, so that a message in a
\* history identifies the caller that wrote it
RoleOf == [c \in Callers |-> IF c = "c1" THEN "user" ELSE "assistant"]
ChatMessage == [role : {RoleOf[c] : c \in Callers}, content : 1..NumContents]
MessagesOf(c) == {m \in ChatMessage : m.role = RoleOf[c]}

RECURSIVE SeqsUpTo(_, _)
SeqsUpTo(S, n) ==
    IF n = 0 THEN {<<>>}
    ELSE LET shorter == SeqsUpTo(S, n - 1)
         IN  shorter \cup {Append(q, x) : q \in {r \in shorter : Len(r) = n - 1}, x \in S}

Batches(c) == SeqsUpTo(MessagesOf(c), MaxBatch)

Conversations == {"A", "B"}
Timestamps == 1..MaxTime

VARIABLES
    store,            \* the chat store: key -> list of messages (absent keys are not in the domain)
    chat_store_key,   \* chat_store_key field of each caller's memory
    pc,               \* "idle", "put_messages" (inside the loop), "aput" (awaiting the store)
    arg,              \* the argument of the call in flight
    idx,              \* put_messages: number of loop iterations done
    pre,              \* history of the bound key when the call in flight started
    disturb,          \* what other callers did to the bound key during the call in flight
    last,             \* the most recent step: operation, caller, argument, returned value
    putLog,           \* per key: the messages passed to put while the key had seen only puts
    usage,            \* per key: "puts", "appends" or "mixed" (operations applied so far)
    issued,           \* per caller: messages it appended, in its call order
    expect,           \* per key: the last list set (empty after reset) and the messages appended since
    ltm               \* the long-term memory: conversation -> timestamped entries, in insertion order

vars == <<store, chat_store_key, pc, arg, idx, pre, disturb, last, putLog, usage, issued, expect, ltm>>

(* ---------------- the chat store (collaborator) ---------------- *)
get_messages(s, key) == IF key \in DOMAIN s THEN s[key] ELSE <<>>

add_message(s, key, message) ==
    [k \in DOMAIN s \cup {key} |->
        IF k = key THEN Append(get_messages(s, key), message) ELSE s[k]]

async_add_message(s, key, message) == add_message(s, key, message)

set_messages(s, key, messages) ==
    [k \in DOMAIN s \cup {key} |-> IF k = key THEN messages ELSE s[k]]

delete_messages(s, key) == [k \in DOMAIN s \ {key} |-> s[k]]

(* ---------------- BaseChatStoreMemory, as functions of the store ---------------- *)
\* variant of get_all: reading the default key
get_all_default_key(s, key) == get_messages(s, DEFAULT_CHAT_STORE_KEY)
get_all(s, key) == get_messages(s, key)

\* variants of put: replacing the history, writing under the default key,
\* and inserting at the front
put_overwrites(s, key, message) == set_messages(s, key, <<message>>)
put_to_default_key(s, key, message) == add_message(s, DEFAULT_CHAT_STORE_KEY, message)
put_prepends(s, key, message) == set_messages(s, key, <<message>> \o get_messages(s, key))
put(s, key, message) == add_message(s, key, message)

\* variants of aput: the store call is never awaited, put runs as well, the history is replaced
aput_not_awaited(s, key, message) == s
aput_overwrites(s, key, message) == set_messages(s, key, <<message>>)
aput_and_put(s, key, message) == async_add_message(add_message(s, key, message), key, message)
aput(s, key, message) == async_add_message(s, key, message)

\* variant of the default aput: put runs twice
BaseMemory_aput_twice(s, key, message) == put(put(s, key, message), key, message)
BaseMemory_aput(s, key, message) == put(s, key, message)

\* variants of set: writing under the default key, and extending the history
set_to_default_key(s, key, messages) == set_messages(s, DEFAULT_CHAT_STORE_KEY, messages)
set_extends(s, key, messages) == set_messages(s, key, get_messages(s, key) \o messages)
set(s, key, messages) == set_messages(s, key, messages)

\* variants of reset: deleting the default key, and deleting nothing
reset_skipped(s, key) == s
reset_default_key(s, key) == delete_messages(s, DEFAULT_CHAT_STORE_KEY)
reset(s, key) == delete_messages(s, key)

(* ---------------- serialization ---------------- *)
\* the chat store's own dump: its one field, the key -> messages map, each
\* message dumped to a plain dict
dump_message(m) == [role |-> m.role, content |-> m.content, additional_kwargs |-> <<>>]
load_message(d) == [role |-> d.role, content |-> d.content]
model_dump(s) ==
    [f \in {"store"} |-> [k \in DOMAIN s |-> [i \in 1..Len(s[k]) |-> dump_message(s[k][i])]]]
chat_store_class_name == "SimpleChatStore"
BaseChatStoreMemory_class_name == "BaseChatStoreMemory"

\* variants of the serializer: tagging with the memory's class name, and
\* returning the tag without the dump
serialize_with_own_class_name(s) ==
    LET res == model_dump(s)
    IN  [f \in DOMAIN res \cup {"class_name"} |->
            IF f = "class_name" THEN BaseChatStoreMemory_class_name ELSE res[f]]
serialize_tag_only(s) == [f \in {"class_name"} |-> chat_store_class_name]
\* field_serializer("chat_store"): res = model_dump(); res.update(class_name)
serialize_courses_in_order(s) ==
    LET res == model_dump(s)
    IN  [f \in DOMAIN res \cup {"class_name"} |->
            IF f = "class_name" THEN chat_store_class_name ELSE res[f]]

\* rebuilding a chat store from a record: the tag selects the constructor,
\* which loads the dumped fields; an unknown or missing tag builds nothing
load_chat_store(record) ==
    IF /\ "class_name" \in DOMAIN record
       /\ record["class_name"] = chat_store_class_name
       /\ "store" \in DOMAIN record
    THEN [k \in DOMAIN record["store"] |->
            [i \in 1..Len(record["store"][k]) |-> load_message(record["store"][k][i])]]
    ELSE << >>

(* ---------------- LongTermMemory ---------------- *)
\* add_message: the entry goes to the end of the conversation's stream
LongTermMemory_add_message(l, message, conversation_id, timestamp) ==
    [l EXCEPT ![conversation_id] = Append(@, [message |-> message, timestamp |-> timestamp])]

\* position of the most recent entry among the positions P of stream q:
\* the largest timestamp, and among equal timestamps the last inserted
MostRecent(q, P) ==
    CHOOSE i \in P : \A j \in P :
        \/ q[j].timestamp < q[i].timestamp
        \/ q[j].timestamp = q[i].timestamp /\ j <= i

RECURSIVE TakeRecent(_, _, _)
TakeRecent(q, P, n) ==
    IF n = 0 \/ P = {} THEN <<>>
    ELSE LET i == MostRecent(q, P) IN <<i>> \o TakeRecent(q, P \ {i}, n - 1)

\* variant: entries at before_timestamp itself qualify
recent_positions_inclusive(l, conversation_id, before_timestamp, max_memories) ==
    TakeRecent(l[conversation_id],
               {i \in 1..Len(l[conversation_id]) :
                    l[conversation_id][i].timestamp <= before_timestamp},
               max_memories)
\* positions, in the order returned, of the entries get_recent_memories picks
recent_positions(l, conversation_id, before_timestamp, max_memories) ==
    TakeRecent(l[conversation_id],
               {i \in 1..Len(l[conversation_id]) :
                    l[conversation_id][i].timestamp < before_timestamp},
               max_memories)

get_recent_memories(l, conversation_id, before_timestamp, max_memories) ==
    LET P == recent_positions(l, conversation_id, before_timestamp, max_memories)
    IN  [i \in 1..Len(P) |-> l[conversation_id][P[i]].message]

(* ---------------- helpers of the model ---------------- *)
KeyOf(c) == chat_store_key[c]
History(k) == get_messages(store, k)

\* appends still to come from calls in flight on key k
Remaining(c) ==
    IF pc[c] = "put_messages" THEN Len(arg[c]) - idx[c]
    ELSE IF pc[c] = "aput" THEN 1 ELSE 0
Reserved(k) ==
    LET r(c) == IF KeyOf(c) = k THEN Remaining(c) ELSE 0
    IN  r("c1") + r("c2")
Room(k, n) == Len(History(k)) + Reserved(k) + n <= MaxLen

\* len: for set and reset, the length of the history they overwrote
Step(op, c, a, r) ==
    [op |-> op, by |-> c, arg |-> a, ret |-> r, rep |-> 1, env |-> "none", len |-> 0,
     rec |-> <<>>]

Worse(d, kind) == IF d = "overwrite" \/ kind = "overwrite" THEN "overwrite" ELSE "append"

\* a write of the given kind by caller c is seen by the batches of the other callers on the same key
DisturbBy(c, kind) ==
    [d \in Callers |->
        IF d # c /\ KeyOf(d) = KeyOf(c) /\ pc[d] = "put_messages"
        THEN Worse(disturb[d], kind) ELSE disturb[d]]
PreBy(c) ==
    [d \in Callers |->
        IF d # c /\ KeyOf(d) = KeyOf(c) /\ pc[d] = "put_messages"
        THEN <<>> ELSE pre[d]]

\* kind is "put" (an execution of put), "append" (the awaited store call of aput) or "overwrite"
UsageAfter(c, kind) ==
    [usage EXCEPT ![KeyOf(c)] =
        IF kind = "put" THEN @
        ELSE IF kind = "append" THEN (IF @ = "puts" THEN "appends" ELSE @)
        ELSE "mixed"]
PutLogAfter(c, kind, m) ==
    [putLog EXCEPT ![KeyOf(c)] =
        IF usage[KeyOf(c)] = "puts" /\ kind = "put" THEN Append(@, m) ELSE @]
\* the callers' logs are kept only while their key has seen nothing but appends
IssuedAfter(c, kind, msgs) ==
    [d \in Callers |->
        IF KeyOf(d) = KeyOf(c) /\ UsageAfter(c, kind)[KeyOf(c)] = "mixed" THEN <<>>
        ELSE IF d = c THEN issued[c] \o msgs
        ELSE issued[d]]
\* a failed call drops from the log the messages it did not append
IssuedDrop(c, n) ==
    [issued EXCEPT ![c] = SubSeq(@, 1, Len(@) - (IF Len(@) < n THEN Len(@) ELSE n))]

Init ==
    /\ store = << >>
    /\ chat_store_key \in {f \in [Callers -> Keys] : f["c1"] = DEFAULT_CHAT_STORE_KEY}
    /\ pc = [c \in Callers |-> "idle"]
    /\ arg = [c \in Callers |-> <<>>]
    /\ idx = [c \in Callers |-> 0]
    /\ pre = [c \in Callers |-> <<>>]
    /\ disturb = [c \in Callers |-> "none"]
    /\ last = Step("init", "none", <<>>, <<>>)
    /\ putLog = [k \in Keys |-> <<>>]
    /\ usage = [k \in Keys |-> "puts"]
    /\ issued = [c \in Callers |-> <<>>]
    /\ expect = [k \in Keys |-> <<>>]
    /\ ltm = [conv \in Conversations |-> <<>>]

(* ---------------- operations ---------------- *)
\* get_all(): one read of the store
GetAll(c) ==
    /\ pc[c] = "idle"
    /\ last' = Step("get_all", c, <<>>, get_all(store, KeyOf(c)))
    /\ UNCHANGED <<store, chat_store_key, pc, arg, idx, pre, disturb, putLog, usage, issued>>
    /\ UNCHANGED ltm
    /\ UNCHANGED expect

\* put(message): one add_message on the store
Put(c, m) ==
    /\ pc[c] = "idle"
    /\ Room(KeyOf(c), 1)
    /\ store' = put(store, KeyOf(c), m)
    /\ last' = Step("put", c, <<m>>, <<>>)
    /\ putLog' = PutLogAfter(c, "put", m)
    /\ usage' = UsageAfter(c, "put")
    /\ issued' = IssuedAfter(c, "put", <<m>>)
    /\ disturb' = DisturbBy(c, "append")
    /\ pre' = PreBy(c)
    /\ UNCHANGED <<chat_store_key, pc, arg, idx>>
    /\ UNCHANGED ltm
    /\ expect' = [expect EXCEPT ![KeyOf(c)] = Append(@, m)]

\* put(message) when the store raises: nothing is added, the error reaches the caller
PutRaises(c, m) ==
    /\ pc[c] = "idle"
    /\ last' = Step("raise", c, <<m>>, <<>>)
    /\ UNCHANGED <<store, chat_store_key, pc, arg, idx, pre, disturb, putLog, usage, issued>>
    /\ UNCHANGED ltm
    /\ UNCHANGED expect

\* BaseMemory.aput(message), the inherited default: runs put before it returns
BaseAput(c, m) ==
    /\ pc[c] = "idle"
    /\ Room(KeyOf(c), 1)
    /\ store' = BaseMemory_aput(store, KeyOf(c), m)
    /\ last' = Step("base_aput", c, <<m>>, <<>>)
    /\ putLog' = PutLogAfter(c, "put", m)
    /\ usage' = UsageAfter(c, "put")
    /\ issued' = IssuedAfter(c, "put", <<m>>)
    /\ disturb' = DisturbBy(c, "append")
    /\ pre' = PreBy(c)
    /\ UNCHANGED <<chat_store_key, pc, arg, idx>>
    /\ UNCHANGED ltm
    /\ expect' = [expect EXCEPT ![KeyOf(c)] = Append(@, m)]

\* BaseChatStoreMemory.aput(message): the coroutine starts and suspends on the store
AputCall(c, m) ==
    /\ pc[c] = "idle"
    /\ Room(KeyOf(c), 1)
    /\ pc' = [pc EXCEPT ![c] = "aput"]
    /\ arg' = [arg EXCEPT ![c] = <<m>>]
    /\ last' = Step("aput_call", c, <<m>>, <<>>)
    /\ issued' = IssuedAfter(c, "append", <<m>>)
    /\ usage' = UsageAfter(c, "append")
    /\ UNCHANGED <<store, chat_store_key, idx, pre, disturb, putLog>>
    /\ UNCHANGED ltm
    /\ UNCHANGED expect

\* the awaited async_add_message completes and aput returns
AputDone(c) ==
    /\ pc[c] = "aput"
    /\ store' = aput(store, KeyOf(c), arg[c][1])
    /\ pc' = [pc EXCEPT ![c] = "idle"]
    /\ arg' = [arg EXCEPT ![c] = <<>>]
    /\ last' = Step("aput", c, arg[c], <<>>)
    /\ disturb' = DisturbBy(c, "append")
    /\ pre' = PreBy(c)
    /\ UNCHANGED <<chat_store_key, idx, putLog, usage, issued>>
    /\ UNCHANGED ltm
    /\ expect' = [expect EXCEPT ![KeyOf(c)] = Append(@, arg[c][1])]

\* the awaited async_add_message raises
AputRaises(c) ==
    /\ pc[c] = "aput"
    /\ pc' = [pc EXCEPT ![c] = "idle"]
    /\ arg' = [arg EXCEPT ![c] = <<>>]
    /\ last' = Step("raise", c, arg[c], <<>>)
    /\ issued' = IssuedDrop(c, 1)
    /\ UNCHANGED <<store, chat_store_key, idx, pre, disturb, putLog, usage>>
    /\ UNCHANGED ltm
    /\ UNCHANGED expect

\* the caller abandons the pending aput: the store call in flight is either
\* carried out in full or not at all
AputCancel(c) ==
    /\ pc[c] = "aput"
    /\ pc' = [pc EXCEPT ![c] = "idle"]
    /\ arg' = [arg EXCEPT ![c] = <<>>]
    /\ \/ /\ store' = aput(store, KeyOf(c), arg[c][1])
          /\ last' = [Step("cancel", c, arg[c], <<>>) EXCEPT !.env = "written"]
          /\ disturb' = DisturbBy(c, "append")
          /\ pre' = PreBy(c)
          /\ expect' = [expect EXCEPT ![KeyOf(c)] = Append(@, arg[c][1])]
          /\ UNCHANGED issued
       \/ /\ last' = [Step("cancel", c, arg[c], <<>>) EXCEPT !.env = "dropped"]
          /\ issued' = IssuedDrop(c, 1)
          /\ UNCHANGED <<store, disturb, pre, expect>>
    /\ UNCHANGED <<chat_store_key, idx, putLog, usage>>
    /\ UNCHANGED ltm

\* put_messages(messages): entering the loop; an empty list returns at once
PutMessagesCall(c, msgs) ==
    /\ pc[c] = "idle"
    /\ Room(KeyOf(c), Len(msgs))
    /\ \/ /\ msgs = <<>>
          /\ last' = Step("put_messages", c, <<>>, <<>>)
          /\ UNCHANGED <<pc, arg, idx, pre, disturb, issued>>
       \/ /\ msgs # <<>>
          /\ pc' = [pc EXCEPT ![c] = "put_messages"]
          /\ arg' = [arg EXCEPT ![c] = msgs]
          /\ idx' = [idx EXCEPT ![c] = 0]
          /\ pre' = [pre EXCEPT ![c] = History(KeyOf(c))]
          /\ disturb' = [disturb EXCEPT ![c] = "none"]
          /\ last' = Step("put_messages_call", c, msgs, <<>>)
          /\ issued' = IssuedAfter(c, "put", msgs)
    /\ UNCHANGED <<store, chat_store_key, putLog, usage>>
    /\ UNCHANGED ltm
    /\ UNCHANGED expect

\* the loop variable: messages are taken in list order
\* variant of the loop: messages taken from the end of the list
NextMessageReversed(c) == arg[c][Len(arg[c]) - idx[c]]
NextMessage(c) == arg[c][idx[c] + 1]

\* one iteration of the loop: put(message); the last iteration returns
PutMessagesStep(c) ==
    /\ pc[c] = "put_messages"
    /\ LET m == NextMessage(c)
           done == idx[c] + 1 = Len(arg[c])
       IN  /\ store' = put(store, KeyOf(c), m)
           /\ putLog' = PutLogAfter(c, "put", m)
           /\ IF done
              THEN /\ pc' = [pc EXCEPT ![c] = "idle"]
                   /\ arg' = [arg EXCEPT ![c] = <<>>]
                   /\ idx' = [idx EXCEPT ![c] = 0]
                   /\ pre' = [PreBy(c) EXCEPT ![c] = <<>>]
                   /\ disturb' = [DisturbBy(c, "append") EXCEPT ![c] = "none"]
                   /\ last' = [Step("put_messages", c, arg[c], <<>>) EXCEPT !.env = disturb[c]]
              ELSE /\ idx' = [idx EXCEPT ![c] = @ + 1]
                   /\ pre' = PreBy(c)
                   /\ disturb' = DisturbBy(c, "append")
                   /\ last' = Step("put_messages_step", c, <<m>>, <<>>)
                   /\ UNCHANGED <<pc, arg>>
    /\ UNCHANGED <<chat_store_key, usage, issued>>
    /\ UNCHANGED ltm
    /\ expect' = [expect EXCEPT ![KeyOf(c)] = Append(@, arg[c][idx[c] + 1])]

\* the put of one iteration raises: the loop is left, the error reaches the caller
PutMessagesRaises(c) ==
    /\ pc[c] = "put_messages"
    /\ pc' = [pc EXCEPT ![c] = "idle"]
    /\ arg' = [arg EXCEPT ![c] = <<>>]
    /\ idx' = [idx EXCEPT ![c] = 0]
    /\ pre' = [pre EXCEPT ![c] = <<>>]
    /\ disturb' = [disturb EXCEPT ![c] = "none"]
    /\ last' = [Step("raise", c, arg[c], <<>>) EXCEPT !.env = disturb[c]]
    /\ issued' = IssuedDrop(c, Len(arg[c]) - idx[c])
    /\ UNCHANGED <<store, chat_store_key, putLog, usage>>
    /\ UNCHANGED ltm
    /\ UNCHANGED expect

\* set(messages): one set_messages on the store
Set(c, msgs) ==
    /\ pc[c] = "idle"
    /\ Len(msgs) + Reserved(KeyOf(c)) <= MaxLen
    /\ store' = set(store, KeyOf(c), msgs)
    /\ last' = [Step("set", c, msgs, <<>>) EXCEPT
                   !.rep = IF last.op = "set" /\ last.by = c /\ last.arg = msgs THEN 2 ELSE 1,
                   !.len = Len(History(KeyOf(c)))]
    /\ putLog' = [putLog EXCEPT ![KeyOf(c)] = <<>>]
    /\ usage' = UsageAfter(c, "overwrite")
    /\ issued' = IssuedAfter(c, "overwrite", <<>>)
    /\ disturb' = DisturbBy(c, "overwrite")
    /\ pre' = PreBy(c)
    /\ UNCHANGED <<chat_store_key, pc, arg, idx>>
    /\ UNCHANGED ltm
    /\ expect' = [expect EXCEPT ![KeyOf(c)] = msgs]

\* reset(): one delete_messages on the store
Reset(c) ==
    /\ pc[c] = "idle"
    /\ store' = reset(store, KeyOf(c))
    /\ last' = [Step("reset", c, <<>>, <<>>) EXCEPT !.len = Len(History(KeyOf(c)))]
    /\ putLog' = [putLog EXCEPT ![KeyOf(c)] = <<>>]
    /\ usage' = UsageAfter(c, "overwrite")
    /\ issued' = IssuedAfter(c, "overwrite", <<>>)
    /\ disturb' = DisturbBy(c, "overwrite")
    /\ pre' = PreBy(c)
    /\ UNCHANGED <<chat_store_key, pc, arg, idx>>
    /\ UNCHANGED ltm
    /\ expect' = [expect EXCEPT ![KeyOf(c)] = <<>>]

\* the memory is dumped: the chat_store field goes through its serializer
Serialize(c) ==
    /\ pc[c] = "idle"
    /\ last' = [Step("serialize", c, <<>>, <<>>) EXCEPT
                   !.rec = serialize_courses_in_order(store)]
    /\ UNCHANGED <<store, chat_store_key, pc, arg, idx, pre, disturb, putLog, usage, issued>>
    /\ UNCHANGED ltm
    /\ UNCHANGED expect

\* the memory is dumped, a new memory with the same key is built on the
\* chat store rebuilt from the record, and get_all() is called on it
RoundTrip(c) ==
    /\ pc[c] = "idle"
    /\ LET record == serialize_courses_in_order(store)
       IN  last' = [Step("round_trip", c, <<>>, get_all(load_chat_store(record), KeyOf(c)))
                       EXCEPT !.rec = record]
    /\ UNCHANGED <<store, chat_store_key, pc, arg, idx, pre, disturb, putLog, usage, issued>>
    /\ UNCHANGED ltm
    /\ UNCHANGED expect

(* ---------------- operations of LongTermMemory ---------------- *)
memvars == <<store, chat_store_key, pc, arg, idx, pre, disturb, putLog, usage, issued, expect>>
Stored == Len(ltm["A"]) + Len(ltm["B"])

AddMessage(message, conversation_id, timestamp) ==
    /\ Stored < MaxEntries
    /\ ltm' = LongTermMemory_add_message(ltm, message, conversation_id, timestamp)
    /\ last' = Step("add_message", "none", <<conversation_id, timestamp>>, <<message>>)
    /\ UNCHANGED memvars

\* the step records the call (arg), the messages returned (ret) and the
\* positions in the stream they were taken from (env)
GetRecentMemories(conversation_id, before_timestamp, max_memories) ==
    /\ last' = [Step("get_recent_memories", "none",
                     <<conversation_id, before_timestamp, max_memories>>,
                     get_recent_memories(ltm, conversation_id, before_timestamp, max_memories))
                   EXCEPT !.env = recent_positions(ltm, conversation_id, before_timestamp,
                                                   max_memories)]
    /\ UNCHANGED memvars
    /\ UNCHANGED ltm

(* ---------------- specifications ---------------- *)
\* operations that are one store call
AtomicOp(c) ==
    \/ GetAll(c)
    \/ \E m \in MessagesOf(c) : Put(c, m)
    \/ \E m \in MessagesOf(c) : PutRaises(c, m)
    \/ \E m \in MessagesOf(c) : BaseAput(c, m)
    \/ \E msgs \in Batches(c) : Set(c, msgs)
    \/ Reset(c)

\* operations that append, the suspending and the looping ones included
AppendOp(c) ==
    \/ GetAll(c)
    \/ \E m \in MessagesOf(c) : Put(c, m)
    \/ \E m \in MessagesOf(c) : AputCall(c, m)
    \/ AputDone(c)
    \/ AputRaises(c)
    \/ \E msgs \in Batches(c) : PutMessagesCall(c, msgs)
    \/ PutMessagesStep(c)
    \/ PutMessagesRaises(c)

\* every operation of the class
AnyOp(c) ==
    \/ GetAll(c)
    \/ \E m \in MessagesOf(c) : Put(c, m)
    \/ \E m \in MessagesOf(c) : PutRaises(c, m)
    \/ \E m \in MessagesOf(c) : BaseAput(c, m)
    \/ \E m \in MessagesOf(c) : AputCall(c, m)
    \/ AputDone(c)
    \/ AputRaises(c)
    \/ \E msgs \in Batches(c) : PutMessagesCall(c, msgs)
    \/ PutMessagesStep(c)
    \/ PutMessagesRaises(c)
    \/ \E msgs \in Batches(c) : Set(c, msgs)
    \/ Reset(c)

\* c1 runs every operation while c2 runs the single-call ones
Next ==
    \/ AnyOp("c1")
    \/ AtomicOp("c2")
Spec == Init /\ [][Next]_vars

\* both callers run the single-call operations
NextOps == \E c \in Callers : AtomicOp(c)
SpecOps == Init /\ [][NextOps]_vars

\* both callers run put and aput, and may abandon a pending aput
CancelOp(c) ==
    \/ GetAll(c)
    \/ \E m \in MessagesOf(c) : Put(c, m)
    \/ \E m \in MessagesOf(c) : AputCall(c, m)
    \/ AputDone(c)
    \/ AputCancel(c)
NextCancel == \E c \in Callers : CancelOp(c)
SpecCancel == Init /\ [][NextCancel]_vars

\* both callers run the single-call operations and dump their memory
SerialOp(c) ==
    \/ AtomicOp(c)
    \/ Serialize(c)
    \/ RoundTrip(c)
NextSerial == \E c \in Callers : SerialOp(c)
SpecSerial == Init /\ [][NextSerial]_vars

\* a long-term memory is filled and queried
NextLongTerm ==
    \/ \E m \in MessagesOf("c1"), conv \in Conversations, t \in Timestamps :
          AddMessage(m, conv, t)
    \/ \E conv \in Conversations, b \in 1..(MaxTime + 1), n \in 1..MaxEntries :
          GetRecentMemories(conv, b, n)
SpecLongTerm == Init /\ [][NextLongTerm]_vars

\* both callers run the appending operations concurrently
NextAppend == \E c \in Callers : AppendOp(c)
SpecAppend == Init /\ [][NextAppend]_vars

(* ---------------- properties ---------------- *)
OtherKeys(c) == Keys \ {chat_store_key[c]}
SameUnder(k, s, t) == (k \in DOMAIN s) = (k \in DOMAIN t) /\ get_messages(s, k) = get_messages(t, k)
Acted(c) == last.by = c
BoundTogether == chat_store_key["c1"] = chat_store_key["c2"]
Alone(c) == \A d \in Callers \ {c} : chat_store_key[d] # chat_store_key[c]
LastN(q, n) == SubSeq(q, Len(q) - n + 1, Len(q))

RECURSIVE RepeatedPut(_, _, _)
RepeatedPut(s, key, messages) ==
    IF messages = <<>> THEN s
    ELSE RepeatedPut(put(s, key, Head(messages)), key, Tail(messages))

\* C1: while a key has seen nothing but put calls since its empty start,
\* get_all() on that key is the list of the messages put, in execution
\* order, in every state (so right after each put), whatever was put under
\* the other key.
C1_PutsReadBack ==
    \A c \in Callers :
        usage[chat_store_key[c]] = "puts"
            => get_all(store, chat_store_key[c]) = putLog[chat_store_key[c]]

C1_Witness ==
    \E c \in Callers :
        /\ last.op = "put" /\ Acted(c)
        /\ usage[chat_store_key[c]] = "puts"
        /\ Len(putLog[chat_store_key[c]]) >= 2
        /\ putLog[chat_store_key[c]][1] # putLog[chat_store_key[c]][2]
        /\ \E k \in OtherKeys(c) : get_messages(store, k) # <<>>

\* C2: a reset() step leaves get_all() of the bound key empty and every
\* other key as it was; a get_all() by the same caller right after it
\* returns the empty list.
C2_ResetClears ==
    [][/\ last'.op = "reset" =>
            /\ get_all(store', chat_store_key'[last'.by]) = <<>>
            /\ \A k \in Keys \ {chat_store_key'[last'.by]} : SameUnder(k, store, store')
       /\ (last.op = "reset" /\ last'.op = "get_all" /\ last'.by = last.by) =>
            last'.ret = <<>>]_vars

C2_Witness ==
    \E c \in Callers :
        /\ last.op = "reset" /\ Acted(c)
        /\ last.len >= 2
        /\ \E k \in OtherKeys(c) : get_messages(store, k) # <<>>

\* C3: a set(msgs) step leaves get_all() of the bound key equal to msgs,
\* whatever the history was; a get_all() by the same caller right after it
\* returns msgs.
C3_SetReplaces ==
    [][/\ last'.op = "set" => get_all(store', chat_store_key'[last'.by]) = last'.arg
       /\ (last.op = "set" /\ last'.op = "get_all" /\ last'.by = last.by) =>
            last'.ret = last.arg]_vars

C3_Witness ==
    \E c \in Callers :
        /\ last.op = "set" /\ Acted(c)
        /\ last.len = MaxLen
        /\ Len(last.arg) = 2
        /\ last.arg[1] # last.arg[2]

\* C4: a set(msgs) step that directly follows a set(msgs) by the same
\* caller with the same msgs leaves the whole store as it was.
C4_SetIdempotent ==
    [][(last'.op = "set" /\ last'.rep = 2) => store' = store]_vars

C4_Witness ==
    /\ last.op = "set"
    /\ last.rep = 2
    /\ last.arg # <<>>

\* C5: when put_messages(msgs) returns and no other caller wrote to the
\* bound key meanwhile, get_all() is the history at the call followed by
\* msgs, which is also what put(m1); ...; put(mn) gives from that history;
\* an empty list leaves the store as it was.
C5_PutMessagesAsPuts ==
    [][/\ \A c \in Callers :
            (pc[c] = "put_messages" /\ pc'[c] = "idle" /\ last'.op = "put_messages"
                /\ disturb[c] = "none") =>
                /\ get_all(store', chat_store_key[c]) = pre[c] \o arg[c]
                /\ get_all(store', chat_store_key[c])
                     = get_all(RepeatedPut(set_messages(store, chat_store_key[c], pre[c]),
                                           chat_store_key[c], arg[c]),
                               chat_store_key[c])
       /\ (last'.op = "put_messages" /\ last'.arg = <<>>) => store' = store]_vars

C5_Witness ==
    \E c \in Callers :
        /\ last.op = "put_messages" /\ Acted(c)
        /\ last.env = "none"
        /\ Len(last.arg) = 2
        /\ last.arg[1] # last.arg[2]
        /\ Len(get_messages(store, chat_store_key[c])) > 2

\* C6: when the store raises inside put_messages and no other caller wrote
\* to the bound key meanwhile, the history of the bound key is the history
\* at the call.
C6_BatchAllOrNothing ==
    [][\A c \in Callers :
            (pc[c] = "put_messages" /\ last'.op = "raise" /\ last'.by = c
                /\ disturb[c] = "none") =>
                get_all(store', chat_store_key[c]) = pre[c]]_vars

\* C7: under concurrent put / aput / put_messages calls on a key that was
\* never overwritten, the messages of each caller's role in the history are
\* the messages that caller appended, once each and in its call order
\* (those of a call still in flight excepted), and the history holds no
\* message of a caller bound to another key.
C7_NoLostAppends ==
    \A c \in Callers :
        usage[chat_store_key[c]] # "mixed" =>
            /\ SelectSeq(get_all(store, chat_store_key[c]), LAMBDA m : m.role = RoleOf[c])
                 = SubSeq(issued[c], 1, Len(issued[c]) - Remaining(c))
            /\ \A i \in 1..Len(get_all(store, chat_store_key[c])) :
                 \E d \in Callers :
                    /\ chat_store_key[d] = chat_store_key[c]
                    /\ get_all(store, chat_store_key[c])[i].role = RoleOf[d]

C7_Witness ==
    \E c \in Callers : \E d \in Callers \ {c} :
        /\ BoundTogether
        /\ last.op = "aput" /\ Acted(c)
        /\ pc[d] = "aput"
        /\ Len(issued[c]) = 2 /\ issued[c][1] # issued[c][2]
        /\ Len(get_messages(store, chat_store_key[c])) = 2

\* C8: a completed put_messages(msgs) leaves msgs as the last Len(msgs)
\* messages of the history (no other caller's message between them), and
\* no get_all() of another caller on the same key runs while only a part
\* of the list is appended.
C8_BatchContiguous ==
    /\ (last.op = "put_messages" /\ last.env # "overwrite" /\ last.arg # <<>>) =>
            /\ Len(get_all(store, chat_store_key[last.by])) >= Len(last.arg)
            /\ LastN(get_all(store, chat_store_key[last.by]), Len(last.arg)) = last.arg
    /\ last.op = "get_all" =>
            \A d \in Callers \ {last.by} :
                ~ (/\ chat_store_key[d] = chat_store_key[last.by]
                   /\ pc[d] = "put_messages"
                   /\ idx[d] > 0
                   /\ disturb[d] # "overwrite")

\* C9: the step that completes an awaited aput(m) leaves the store as
\* put(m) would from the same state, and a caller alone on its key that
\* mixes put and aput reads its messages back in call order.
C9_AputAsPut ==
    /\ [][\A c \in Callers :
             (pc[c] = "aput" /\ last'.op = "aput" /\ last'.by = c) =>
                 store' = put(store, chat_store_key[c], arg[c][1])]_vars
    /\ [](\A c \in Callers :
             (Alone(c) /\ pc[c] = "idle" /\ usage[chat_store_key[c]] # "mixed") =>
                 get_all(store, chat_store_key[c]) = issued[c])

C9_Witness ==
    \E c \in Callers :
        /\ Alone(c)
        /\ last.op = "aput" /\ Acted(c)
        /\ putLog[chat_store_key[c]] # <<>>
        /\ Len(issued[c]) = MaxLen
        /\ issued[c][1] # issued[c][MaxLen]

\* C10: every step of a caller leaves the history of every key other than
\* the one its memory is bound to as it was.
C10_OtherKeysUnchanged ==
    [][last'.by \in Callers =>
          \A k \in Keys \ {chat_store_key[last'.by]} : SameUnder(k, store, store')]_vars

C10_Witness ==
    \E c \in Callers :
        /\ last.op = "put_messages" /\ Acted(c)
        /\ Len(last.arg) = 2
        /\ \E k \in OtherKeys(c) : Len(get_messages(store, k)) >= 2

\* C11: the step that abandons a pending aput(m) leaves the history of the
\* bound key either as it was or with m appended once, and the caller idle.
C11_CancelAllOrNothing ==
    [][\A c \in Callers :
          (pc[c] = "aput" /\ last'.op = "cancel" /\ last'.by = c) =>
              /\ \/ get_all(store', chat_store_key[c]) = get_all(store, chat_store_key[c])
                 \/ get_all(store', chat_store_key[c])
                      = Append(get_all(store, chat_store_key[c]), arg[c][1])
              /\ pc'[c] = "idle"]_vars

C11_Witness ==
    \E c \in Callers :
        /\ last.op = "cancel" /\ Acted(c)
        /\ last.env = "written"
        /\ Len(get_messages(store, chat_store_key[c])) >= 2
        /\ \E d \in Callers \ {c} : chat_store_key[d] = chat_store_key[c] /\ pc[d] = "aput"

\* C12: on a key that is not in the store (never written, or reset),
\* get_all() returns the empty list, put(m) leaves the history [m] and
\* set(msgs) leaves the history msgs.
C12_AbsentKey ==
    [][(last'.by \in Callers /\ chat_store_key[last'.by] \notin DOMAIN store) =>
          /\ last'.op = "get_all" => last'.ret = <<>>
          /\ last'.op = "put" => get_all(store', chat_store_key[last'.by]) = last'.arg
          /\ last'.op = "set" => get_all(store', chat_store_key[last'.by]) = last'.arg]_vars

C12_Witness ==
    \E c \in Callers :
        /\ last.op = "put" /\ Acted(c)
        /\ usage[chat_store_key[c]] = "puts"
        /\ putLog[chat_store_key[c]] = last.arg
        /\ get_messages(store, chat_store_key[c]) = last.arg
        /\ \E k \in OtherKeys(c) : get_messages(store, k) # <<>>

\* C13: a memory rebuilt from the serialized chat_store record, with the
\* same chat_store_key, returns from get_all() the history the original
\* memory returns.
C13_RoundTrip ==
    last.op = "round_trip" => last.ret = get_all(store, chat_store_key[last.by])

C13_Witness ==
    \E c \in Callers :
        /\ last.op = "round_trip" /\ Acted(c)
        /\ Len(last.ret) >= 2
        /\ last.ret[1] # last.ret[2]
        /\ \E k \in OtherKeys(c) : get_messages(store, k) # <<>>

\* C17: the serialized chat_store record has the fields of the chat
\* store's own dump plus class_name, class_name is the chat store's class
\* name, and every field of the dump is in the record with its value.
C17_RecordIsDumpPlusTag ==
    last.op = "serialize" =>
        /\ DOMAIN last.rec = DOMAIN model_dump(store) \cup {"class_name"}
        /\ last.rec["class_name"] = chat_store_class_name
        /\ \A f \in DOMAIN model_dump(store) :
              f \in DOMAIN last.rec /\ last.rec[f] = model_dump(store)[f]

C17_Witness ==
    \E c \in Callers :
        /\ last.op = "serialize" /\ Acted(c)
        /\ DOMAIN store = Keys
        /\ \A k \in Keys : store[k] # <<>>

\* C14: get_recent_memories(C, before_timestamp = b, max_memories = N)
\* returns messages of entries of C, each entry once, all with timestamp
\* below b, most recent first (later insertion first among equal
\* timestamps), as many as qualify but never more than N, and no entry
\* left out is more recent than one returned.
Qualifying(conv, b) == {i \in 1..Len(ltm[conv]) : ltm[conv][i].timestamp < b}
Smaller(a, b) == IF a < b THEN a ELSE b
C14_RecentRecall ==
    last.op = "get_recent_memories" =>
        LET conv == last.arg[1]
            b    == last.arg[2]
            n    == last.arg[3]
            P    == last.env
            q    == ltm[conv]
        IN  /\ Len(last.ret) = Len(P)
            /\ \A i \in 1..Len(P) :
                  /\ P[i] \in Qualifying(conv, b)
                  /\ last.ret[i] = q[P[i]].message
            /\ Len(P) = Smaller(n, Cardinality(Qualifying(conv, b)))
            /\ \A i \in 1..Len(P) : \A j \in 1..Len(P) :
                  i < j =>
                      \/ q[P[i]].timestamp > q[P[j]].timestamp
                      \/ q[P[i]].timestamp = q[P[j]].timestamp /\ P[i] > P[j]
            /\ \A k \in Qualifying(conv, b) :
                  (\A i \in 1..Len(P) : P[i] # k) =>
                      \A i \in 1..Len(P) : q[k].timestamp <= q[P[i]].timestamp

\* entries at t1 < t3, then one more: a call with t1 < before <= t3 returns
\* the t1 entries only, the later inserted first
C14_Witness ==
    /\ last.op = "get_recent_memories"
    /\ Len(ltm[last.arg[1]]) = 3
    /\ ltm[last.arg[1]][1].timestamp < last.arg[2]
    /\ ltm[last.arg[1]][2].timestamp >= last.arg[2]
    /\ last.env = <<3, 1>>
    /\ last.arg[3] = 3
    /\ last.ret[1] # last.ret[2]

\* C15: in every state the history of a key is the list of the most recent
\* set on it (empty after a reset, or when there was none) followed by the
\* messages appended since by put, aput and put_messages, in append order.
C15_HistoryIsSetThenAppends ==
    \A c \in Callers : get_all(store, chat_store_key[c]) = expect[chat_store_key[c]]

C15_Witness ==
    /\ Alone("c1")
    /\ last.op = "put_messages" /\ Acted("c1")
    /\ Len(last.arg) = 2
    /\ last.arg[1] # last.arg[2]
    /\ usage[chat_store_key["c1"]] = "mixed"
    /\ Len(get_messages(store, chat_store_key["c1"])) = MaxLen

\* C16: a default aput(m) is one step: the caller is idle before and after
\* it, no caller's position changes, and the history of the bound key
\* grows by m exactly once.
C16_DefaultAputIsOnePut ==
    [][last'.op = "base_aput" =>
          /\ pc[last'.by] = "idle"
          /\ pc' = pc
          /\ get_all(store', chat_store_key[last'.by])
               = Append(get_all(store, chat_store_key[last'.by]), last'.arg[1])]_vars

C16_Witness ==
    \E c \in Callers : \E d \in Callers \ {c} :
        /\ last.op = "base_aput" /\ Acted(c)
        /\ chat_store_key[d] = chat_store_key[c]
        /\ pc[d] = "put_messages" /\ idx[d] = 1
        /\ Len(get_messages(store, chat_store_key[c])) = 2

\* C18: no step changes chat_store_key; a get_all() through one memory
\* right after a write through another memory on the same key returns the
\* written history, and right after a get_all() through the other memory
\* it returns the same list.
Appending == {"put", "base_aput", "aput", "put_messages", "put_messages_step"}
C18_NoStateInMemory ==
    [][/\ chat_store_key' = chat_store_key
       /\ (/\ last'.op = "get_all"
           /\ last.by \in Callers
           /\ last.by # last'.by
           /\ chat_store_key[last.by] = chat_store_key[last'.by]) =>
              /\ (last.op \in Appending /\ last.arg # <<>>) =>
                    /\ last'.ret # <<>>
                    /\ last'.ret[Len(last'.ret)] = last.arg[Len(last.arg)]
              /\ last.op = "set" => last'.ret = last.arg
              /\ last.op = "reset" => last'.ret = <<>>
              /\ last.op = "get_all" => last'.ret = last.ret]_vars

C18_Witness ==
    /\ BoundTogether
    /\ last.op = "get_all" /\ Acted("c2")
    /\ Len(last.ret) = MaxLen
    /\ last.ret[MaxLen].role = RoleOf["c1"]
    /\ last.ret[1].role = RoleOf["c2"]
====
